---- MODULE Spec2Model ----
(***************************************************************************)
(* Fraud-detection workflow of production-ready-observability:             *)
(*   workflows/workflow.py      the three executors and the runner         *)
(*   workflows/telemetry.py     the business metrics the executors record  *)
(*   batch_run/multi_transaction_simulator.py   the batch loop             *)
(*   agents/fraud_alert_agent.py   the tools of the fraud alert agent      *)
(* and the sequential workflow of from-zero-to-hero/orchestration/         *)
(* sequential_agents.py.                                                   *)
(* Text is modelled as a sequence of one-character strings, so that the    *)
(* regular expressions of the risk-score parser are matched character by   *)
(* character, as Python's re module matches them.                          *)
(***************************************************************************)
EXTENDS Integers, Sequences, FiniteSets, TLC

VARIABLES
    text,        \* harness of the risk-score parser: the model's reply
    parsed,      \* harness of the risk-score parser: what handle() derived
    bpc,         \* run_batch_simulation: position in the function
    num_transactions, \* run_batch_simulation: its argument
    transactions,     \* run_batch_simulation: the prepared list
    bi,          \* run_batch_simulation: loop index i (1-based, enumerate(.., 1))
    result,      \* run_batch_simulation: result of the awaited transaction
    summary,     \* run_batch_simulation: BatchRunSummary
    runs,        \* workflow runs, one slot per call of run_fraud_detection_workflow
    alerts,      \* telemetry: record_fraud_alert_created calls
    sars,        \* telemetry: record_sar_filed calls
    endpoint,        \* os.environ has AI_FOUNDRY_PROJECT_ENDPOINT
    project_client,  \* workflow.py: the global _project_client
    credential,      \* workflow.py: the global _credential
    credentials,     \* the DefaultAzureCredential objects constructed so far
    clients,         \* the AIProjectClient objects constructed so far
    closed,          \* the objects whose close() has been awaited
    returned,        \* what each call of get_project_client gave, in order
    task,            \* sequential_agents.py: what run_stream was given
    seq_pc,          \* sequential workflow: idle, ready, running, done or failed
    stage,           \* sequential workflow: the executor that holds the messages
    conversation,    \* sequential workflow: the list the executors hand on
    agent_runs,      \* sequential workflow: each agent.run, its argument and reply
    seq_outputs,     \* sequential workflow: the outputs yielded
    alerts_container,  \* fraud_alert_agent.py: a Cosmos container, or None (FALSE)
    documents,         \* the documents of the FraudAlerts container
    tool_calls         \* each call of a tool of the fraud alert agent, and its result

\* the state of the workflow and of the batch run
fraud == <<text, parsed, bpc, num_transactions, transactions, bi, result,
           summary, runs, alerts, sars>>

\* the state of the shared client
client == <<endpoint, project_client, credential, credentials, clients,
            closed, returned>>

\* the state of the sequential Researcher -> Writer -> Reviewer workflow
chat == <<task, seq_pc, stage, conversation, agent_runs, seq_outputs>>

\* the state of the tools of the fraud alert agent
store == <<alerts_container, documents, tool_calls>>

\* what an operation of the workflow or of the batch run leaves alone
others == <<client, chat, store>>

vars == <<fraud, others>>

(***************************************************************************)
(* Module state right after import                                         *)
(***************************************************************************)
\* _project_client: AIProjectClient | None = None; objects are numbered from 1
NoObject == 0

\* workflow.py as imported, in a process whose environment has the endpoint
ClientAtImport ==
    /\ endpoint = TRUE
    /\ project_client = NoObject
    /\ credential = NoObject
    /\ credentials = {}
    /\ clients = {}
    /\ closed = {}
    /\ returned = <<>>

\* sequential_agents.py before main() has built its workflow
ChatAtImport ==
    /\ task = <<>>
    /\ seq_pc = "idle"
    /\ stage = 0
    /\ conversation = <<>>
    /\ agent_runs = <<>>
    /\ seq_outputs = <<>>

\* fraud_alert_agent.py imported without COSMOS_ENDPOINT and COSMOS_KEY
StoreAtImport ==
    /\ alerts_container = FALSE
    /\ documents = {}
    /\ tool_calls = <<>>

OthersAtImport == ClientAtImport /\ ChatAtImport /\ StoreAtImport

(***************************************************************************)
(* Bounds                                                                  *)
(***************************************************************************)
\* longest reply of the risk model, in phrases, in the parser harness
MaxSegs == 3
\* longest reply of the risk model, in phrases, inside a workflow run
MaxRunSegs == 1
\* largest num_transactions of a batch
MaxTransactions == 2
\* longest list prepared on its own: two rounds over the 17 seed transactions
\* and the first entry of a third
MaxPrepared == 35
\* longest prepared list that is also shuffled
MaxShuffled == 3
\* most calls of get_project_client in one process
MaxCalls == 6
\* most messages in the reply of an agent of the sequential workflow
MaxResponse == 2
\* most messages in the list the sequential workflow is started with
MaxTask == 2
\* most calls of the tools of the fraud alert agent
MaxToolCalls == 2

(***************************************************************************)
(* Characters and strings                                                  *)
(***************************************************************************)
Digits == {"0","1","2","3","4","5","6","7","8","9"}

Letters == {"a","b","c","d","e","f","g","h","i","j","k","l","m","n","o","p",
            "q","r","s","t","u","v","w","x","y","z"}

UpperSeq == <<"A","B","C","D","E","F","G","H","I","J","K","L","M","N","O","P",
             "Q","R","S","T","U","V","W","X","Y","Z">>

LowerSeq == <<"a","b","c","d","e","f","g","h","i","j","k","l","m","n","o","p",
             "q","r","s","t","u","v","w","x","y","z">>

Upper == {UpperSeq[i] : i \in 1..26}

\* \s of the re module
Whitespace == {" ", "\n", "\t"}

\* [:\s] of the patterns
ColonSpace == Whitespace \cup {":"}

\* \w of the re module: what \b separates from the rest
WordChars == Letters \cup Upper \cup Digits \cup {"_"}

\* str.lower(), one character
LowerChar(c) ==
    IF c \in Upper THEN LowerSeq[CHOOSE i \in 1..26 : UpperSeq[i] = c] ELSE c

\* str.lower()
lower(s) == [i \in 1..Len(s) |-> LowerChar(s[i])]

DigitValue(c) ==
    CASE c = "0" -> 0 [] c = "1" -> 1 [] c = "2" -> 2 [] c = "3" -> 3
      [] c = "4" -> 4 [] c = "5" -> 5 [] c = "6" -> 6 [] c = "7" -> 7
      [] c = "8" -> 8 [] c = "9" -> 9

\* int() of a string of decimal digits
RECURSIVE int(_)
int(ds) ==
    IF Len(ds) = 0 THEN 0
    ELSE 10 * int(SubSeq(ds, 1, Len(ds) - 1)) + DigitValue(ds[Len(ds)])

\* s has w at position pos
HasAt(s, pos, w) ==
    /\ pos + Len(w) - 1 <= Len(s)
    /\ \A j \in 1..Len(w) : s[pos + j - 1] = w[j]

\* w in s
Contains(s, w) == \E pos \in 1..(Len(s) + 1) : HasAt(s, pos, w)

(***************************************************************************)
(* Regular expressions: a pattern is a sequence of items, matched left to  *)
(* right with backtracking, every repetition greedy, as re.search does.    *)
(***************************************************************************)
Lit(w) == [t |-> "lit", w |-> w]
Star(c) == [t |-> "star", c |-> c]
\* the capturing group (\d{lo,hi})
Group(c, lo, hi) == [t |-> "group", c |-> c, lo |-> lo, hi |-> hi]
\* (w1|w2|...)
Alt(ws) == [t |-> "alt", ws |-> ws]
\* (...)?
Opt(items) == [t |-> "opt", items |-> items]
\* \b
WordBoundary == [t |-> "wb"]

NoMatch == [ok |-> FALSE, group |-> <<>>]

\* number of characters of class c in s from position pos on
RECURSIVE RunLength(_, _, _)
RunLength(s, pos, c) ==
    IF pos <= Len(s) /\ s[pos] \in c THEN 1 + RunLength(s, pos + 1, c) ELSE 0

IsWordAt(s, pos) == pos >= 1 /\ pos <= Len(s) /\ s[pos] \in WordChars

\* \b at pos: between s[pos-1] and s[pos], exactly one is a word character
AtWordBoundary(s, pos) == IsWordAt(s, pos - 1) # IsWordAt(s, pos)

RECURSIVE MatchHere(_, _, _, _, _)
RECURSIVE TryRepeat(_, _, _, _, _, _, _)
RECURSIVE TryAlt(_, _, _, _, _, _)

\* match items[k..] at position pos of s; g is the group captured so far
MatchHere(items, k, s, pos, g) ==
    IF k > Len(items) THEN [ok |-> TRUE, group |-> g]
    ELSE LET it == items[k] IN
      CASE it.t = "lit" ->
             IF HasAt(s, pos, it.w)
             THEN MatchHere(items, k + 1, s, pos + Len(it.w), g)
             ELSE NoMatch
        [] it.t = "wb" ->
             IF AtWordBoundary(s, pos)
             THEN MatchHere(items, k + 1, s, pos, g)
             ELSE NoMatch
        [] it.t = "star" ->
             TryRepeat(items, k, s, pos, g, RunLength(s, pos, it.c), 0)
        [] it.t = "group" ->
             LET n == RunLength(s, pos, it.c)
             IN  TryRepeat(items, k, s, pos, g,
                           IF n > it.hi THEN it.hi ELSE n, it.lo)
        [] it.t = "alt" -> TryAlt(items, k, s, pos, g, 1)
        [] it.t = "opt" ->
             LET rest == SubSeq(items, k + 1, Len(items))
                 with == MatchHere(it.items \o rest, 1, s, pos, g)
             IN  IF with.ok THEN with ELSE MatchHere(items, k + 1, s, pos, g)

\* greedy repetition: n characters first, then fewer, never fewer than lo
TryRepeat(items, k, s, pos, g, n, lo) ==
    IF n < lo THEN NoMatch
    ELSE LET g2 == IF items[k].t = "group" THEN SubSeq(s, pos, pos + n - 1)
                   ELSE g
             r  == MatchHere(items, k + 1, s, pos + n, g2)
         IN  IF r.ok THEN r ELSE TryRepeat(items, k, s, pos, g, n - 1, lo)

\* alternation: the alternatives in their written order
TryAlt(items, k, s, pos, g, a) ==
    IF a > Len(items[k].ws) THEN NoMatch
    ELSE LET w == items[k].ws[a]
             r == IF HasAt(s, pos, w)
                  THEN MatchHere(items, k + 1, s, pos + Len(w), g)
                  ELSE NoMatch
         IN  IF r.ok THEN r ELSE TryAlt(items, k, s, pos, g, a + 1)

RECURSIVE SearchFrom(_, _, _)
SearchFrom(items, s, pos) ==
    IF pos > Len(s) + 1 THEN NoMatch
    ELSE LET r == MatchHere(items, 1, s, pos, <<>>)
         IN  IF r.ok THEN r ELSE SearchFrom(items, s, pos + 1)

\* re.search(pattern, s): the leftmost match
search(items, s) == SearchFrom(items, s, 1)


(***************************************************************************)
(* RiskAnalyserAgentExecutor.handle: the risk score of a reply             *)
(***************************************************************************)
Digit13 == Group(Digits, 1, 3)

\* the six patterns, most specific first
patterns == <<
    \* risk\s*score[:\s]*(\d{1,3})(?:\s*/\s*100)?
    << Lit(<<"r","i","s","k">>), Star(Whitespace), Lit(<<"s","c","o","r","e">>), Star(ColonSpace), Digit13,
       Opt(<< Star(Whitespace), Lit(<<"/">>), Star(Whitespace), Lit(<<"1","0","0">>) >>) >>,
    \* score[:\s]*(\d{1,3})\s*/\s*100
    << Lit(<<"s","c","o","r","e">>), Star(ColonSpace), Digit13,
       Star(Whitespace), Lit(<<"/">>), Star(Whitespace), Lit(<<"1","0","0">>) >>,
    \* (\d{1,3})\s*(?:out of|/)\s*100
    << Digit13, Star(Whitespace), Alt(<< <<"o","u","t"," ","o","f">>, <<"/">> >>),
       Star(Whitespace), Lit(<<"1","0","0">>) >>,
    \* \*\*risk[:\s]*(\d{1,3})\*\*
    << Lit(<<"*","*","r","i","s","k">>), Star(ColonSpace), Digit13, Lit(<<"*","*">>) >>,
    \* overall\s*risk[:\s]*(\d{1,3})
    << Lit(<<"o","v","e","r","a","l","l">>), Star(Whitespace), Lit(<<"r","i","s","k">>), Star(ColonSpace), Digit13 >>,
    \* assessment[:\s]*(\d{1,3})
    << Lit(<<"a","s","s","e","s","s","m","e","n","t">>), Star(ColonSpace), Digit13 >>
  >>

\* \b(w1|w2|...)\s*(risk)?
Keyword(ws) ==
    << WordBoundary, Alt(ws), Star(Whitespace), Opt(<< Lit(<<"r","i","s","k">>) >>) >>

HighWords == << <<"h","i","g","h">>, <<"c","r","i","t","i","c","a","l">>, <<"s","e","v","e","r","e">> >>
MediumWords == << <<"m","e","d","i","u","m">>, <<"m","o","d","e","r","a","t","e">> >>
LowWords == << <<"l","o","w">>, <<"m","i","n","i","m","a","l">> >>

\* risk_score = None
None == -1

\* a loop that takes the first match whatever its value
RECURSIVE PatternLoopUnchecked(_, _)
PatternLoopUnchecked(low, i) ==
    IF i > Len(patterns) THEN None
    ELSE LET match == search(patterns[i], low)
         IN  IF match.ok THEN int(match.group)
             ELSE PatternLoopUnchecked(low, i + 1)

\* a loop without the break: the last pattern with a score in range wins
RECURSIVE PatternLoopLast(_, _)
PatternLoopLast(low, i) ==
    IF i > Len(patterns) THEN None
    ELSE LET match == search(patterns[i], low)
             later == PatternLoopLast(low, i + 1)
         IN  IF later # None THEN later
             ELSE IF match.ok /\ int(match.group) >= 0 /\ int(match.group) <= 100
             THEN int(match.group)
             ELSE None

\* for pattern in patterns: ... from the i-th pattern on; low is the reply,
\* lower-cased
RECURSIVE PatternLoop(_, _)
PatternLoop(low, i) ==
    IF i > Len(patterns) THEN None
    ELSE LET match == search(patterns[i], low)
         IN  IF match.ok /\ int(match.group) >= 0 /\ int(match.group) <= 100
             THEN int(match.group)
             ELSE PatternLoop(low, i + 1)

\* a fallback that looks for the low-risk words first
KeywordFallbackLowFirst(low) ==
    IF search(Keyword(LowWords), low).ok THEN 25
    ELSE IF search(Keyword(MediumWords), low).ok THEN 55
    ELSE IF search(Keyword(HighWords), low).ok THEN 85
    ELSE 50

\* Fallback: extract risk level from text if no score found
KeywordFallback(low) ==
    IF search(Keyword(HighWords), low).ok THEN 85
    ELSE IF search(Keyword(MediumWords), low).ok THEN 55
    ELSE IF search(Keyword(LowWords), low).ok THEN 25
    ELSE 50

\* the risk_score of a reply
RiskScore(risk_analysis) ==
    LET low == lower(risk_analysis)
        risk_score == PatternLoop(low, 1)
    IN  IF risk_score = None THEN KeywordFallback(low) ELSE risk_score

\* levels that start above their thresholds
RiskLevelStrict(risk_score) ==
    IF risk_score > 75 THEN "HIGH"
    ELSE IF risk_score > 40 THEN "MEDIUM" ELSE "LOW"

RiskLevel(risk_score) ==
    IF risk_score >= 75 THEN "HIGH"
    ELSE IF risk_score >= 40 THEN "MEDIUM" ELSE "LOW"

Recommendation(risk_level) ==
    IF risk_level = "HIGH" THEN "BLOCK"
    ELSE IF risk_level = "MEDIUM" THEN "INVESTIGATE" ELSE "ALLOW"

\* what the success path of handle() puts into its RiskAnalysisResponse
Assessment(risk_analysis) ==
    LET risk_score == RiskScore(risk_analysis)
        risk_level == RiskLevel(risk_score)
    IN  [risk_score |-> risk_score,
         risk_level |-> risk_level,
         recommendation |-> Recommendation(risk_level),
         status |-> "SUCCESS"]

(***************************************************************************)
(* Replies of the hosted risk model: up to n phrases, one after the other  *)
(***************************************************************************)
Phrases == {
    \* "Risk Score: "
    <<"R","i","s","k"," ","S","c","o","r","e",":"," ">>,
    \* "Risk Score: 150. "
    <<"R","i","s","k"," ","S","c","o","r","e",":"," ","1","5","0","."," ">>,
    \* "Risk Score: 90/100"
    <<"R","i","s","k"," ","S","c","o","r","e",":"," ","9","0","/","1","0","0">>,
    \* "score: "
    <<"s","c","o","r","e",":"," ">>,
    \* "75"
    <<"7","5">>,
    \* "40"
    <<"4","0">>,
    \* "150"
    <<"1","5","0">>,
    \* "/100"
    <<"/","1","0","0">>,
    \* " out of 100"
    <<" ","o","u","t"," ","o","f"," ","1","0","0">>,
    \* "**Risk: "
    <<"*","*","R","i","s","k",":"," ">>,
    \* "**"
    <<"*","*">>,
    \* "Overall risk: 39 "
    <<"O","v","e","r","a","l","l"," ","r","i","s","k",":"," ","3","9"," ">>,
    \* "Assessment: "
    <<"A","s","s","e","s","s","m","e","n","t",":"," ">>,
    \* " HIGH"
    <<" ","H","I","G","H">>,
    \* " medium risk"
    <<" ","m","e","d","i","u","m"," ","r","i","s","k">>,
    \* " low"
    <<" ","l","o","w">>,
    \* "allow"
    <<"a","l","l","o","w">> }

RECURSIVE Replies(_)
Replies(n) ==
    IF n = 0 THEN {<<>>}
    ELSE LET shorter == Replies(n - 1)
         IN  shorter \cup {r \o p : r \in shorter, p \in Phrases}

(***************************************************************************)
(* Messages of the workflow (the pydantic models)                          *)
(***************************************************************************)
\* None, where a message or a result is expected
NoMessage == [type |-> "None"]

\* Optional[float] amount = None
NoAmount == -1

AnalysisRequest(transaction_id, customer_id, amount, currency) ==
    [type |-> "AnalysisRequest", transaction_id |-> transaction_id,
     customer_id |-> customer_id, amount |-> amount, currency |-> currency]

CustomerDataResponse(customer_id, transaction_id, analysis, status, amount, currency) ==
    [type |-> "CustomerDataResponse", customer_id |-> customer_id,
     transaction_id |-> transaction_id, analysis |-> analysis,
     status |-> status, amount |-> amount, currency |-> currency]

RiskAnalysisResponse(transaction_id, customer_id, risk_analysis, risk_score, risk_level, recommendation, status, amount, currency) ==
    [type |-> "RiskAnalysisResponse", transaction_id |-> transaction_id,
     customer_id |-> customer_id, risk_analysis |-> risk_analysis,
     risk_score |-> risk_score, risk_level |-> risk_level,
     recommendation |-> recommendation, status |-> status,
     amount |-> amount, currency |-> currency]

FraudAlertResponse(transaction_id, customer_id, alert_response, alert_created, workflow_status, risk_score, risk_level) ==
    [type |-> "FraudAlertResponse", transaction_id |-> transaction_id,
     customer_id |-> customer_id, alert_response |-> alert_response,
     alert_created |-> alert_created, workflow_status |-> workflow_status,
     risk_score |-> risk_score, risk_level |-> risk_level]

(***************************************************************************)
(* The hosted agents: a call of agent.run returns a response, whose list   *)
(* of messages may be empty, or raises                                     *)
(***************************************************************************)
Exceptions == { <<"t","i","m","e","o","u","t">> }

CustomerTexts == { <<"C","u","s","t","o","m","e","r"," ","p","r","o","f","i","l","e">> }

AlertTexts == { <<"F","r","a","u","d"," ","A","l","e","r","t"," ","C","r","e","a","t","e","d">>, <<"N","o"," ","a","l","e","r","t"," ","n","e","e","d","e","d">> }

AgentOutcomes(texts) ==
    {[raised |-> FALSE, messages |-> <<tx>>, error |-> <<>>] : tx \in texts}
    \cup {[raised |-> FALSE, messages |-> <<>>, error |-> <<>>]}
    \cup {[raised |-> TRUE, messages |-> <<>>, error |-> e] : e \in Exceptions}

\* response.messages[-1].text if response.messages else "No response"
LastText(messages) ==
    IF Len(messages) > 0 THEN messages[Len(messages)] ELSE <<"N","o"," ","r","e","s","p","o","n","s","e">>

\* f"Error: {str(e)}"
ErrorText(e) == <<"E","r","r","o","r",":"," ">> \o e

(***************************************************************************)
(* The workflow graph and a run of it                                      *)
(***************************************************************************)
Executors == {"CustomerDataAgent", "RiskAnalyserAgent", "FraudAlertAgent"}

\* add_edge
Edges == { <<"CustomerDataAgent", "RiskAnalyserAgent">>,
           <<"RiskAnalyserAgent", "FraudAlertAgent">> }

\* set_start_executor
StartExecutor == "CustomerDataAgent"

\* a slot no call of run_fraud_detection_workflow has used yet
IdleRun ==
    [pc |-> "idle",
     inbox |-> [e \in Executors |-> <<>>],
     handling |-> [e \in Executors |-> NoMessage],
     calls |-> [e \in Executors |-> 0],
     trace |-> <<>>,
     events |-> <<>>,
     outputs |-> 0,
     final_result |-> NoMessage]

\* the slot of a call whose result the caller has taken
DoneRun == [IdleRun EXCEPT !.pc = "done"]

Slots == 1..MaxTransactions

Running(r) == runs[r].pc = "running"

\* the executor takes the message at the head of its inbox and calls its
\* hosted agent: handle() up to "await self.agent.run(...)"
Take(run, e) ==
    [run EXCEPT !.inbox[e] = Tail(@),
                !.handling[e] = Head(run.inbox[e]),
                !.calls[e] = @ + 1,
                !.trace = Append(@, [ev |-> "handle", by |-> e,
                                     msg |-> Head(run.inbox[e])])]

CanTake(run, e, type) ==
    /\ run.pc = "running"
    /\ run.handling[e] = NoMessage
    /\ Len(run.inbox[e]) > 0
    /\ Head(run.inbox[e]).type = type

\* a send_message that delivers the message twice
send_message_twice(run, e, msg) ==
    [run EXCEPT !.inbox = [x \in Executors |->
                              IF <<e, x>> \in Edges THEN @[x] \o <<msg, msg>>
                              ELSE @[x]],
                !.handling[e] = NoMessage,
                !.trace = Append(@, [ev |-> "send", by |-> e, msg |-> msg])]

\* ctx.send_message(msg) at the end of handle(): msg goes to the executors
\* the edges lead to
send_message(run, e, msg) ==
    [run EXCEPT !.inbox = [x \in Executors |->
                              IF <<e, x>> \in Edges THEN Append(@[x], msg)
                              ELSE @[x]],
                !.handling[e] = NoMessage,
                !.trace = Append(@, [ev |-> "send", by |-> e, msg |-> msg])]

\* ctx.yield_output(msg) at the end of handle(): a WorkflowOutputEvent
yield_output(run, e, msg) ==
    [run EXCEPT !.events = Append(@, msg),
                !.outputs = @ + 1,
                !.handling[e] = NoMessage,
                !.trace = Append(@, [ev |-> "yield", by |-> e, msg |-> msg])]

\* what a trace records of the exception a call raised
Raised(run, e, out) ==
    IF out.raised
    THEN [run EXCEPT !.trace = Append(@, [ev |-> "raise", by |-> e,
                                          msg |-> [type |-> "Exception",
                                                   error |-> out.error]])]
    ELSE run

(***************************************************************************)
(* CustomerDataAgentExecutor                                               *)
(***************************************************************************)
\* the CustomerDataResponse of handle(), try and except
CustomerData(request, out) ==
    IF ~out.raised
    THEN CustomerDataResponse(request.customer_id, request.transaction_id,
                              LastText(out.messages), "SUCCESS",
                              request.amount, request.currency)
    ELSE CustomerDataResponse(request.customer_id, request.transaction_id,
                              ErrorText(out.error), "ERROR", NoAmount, "USD")

CustomerDataCall(r) ==
    /\ CanTake(runs[r], "CustomerDataAgent", "AnalysisRequest")
    /\ runs' = [runs EXCEPT ![r] = Take(@, "CustomerDataAgent")]
    /\ UNCHANGED <<text, parsed, bpc, num_transactions, transactions, bi,
                   result, summary, alerts, sars>>
    /\ UNCHANGED others

CustomerDataResume(r) ==
    /\ Running(r)
    /\ runs[r].handling["CustomerDataAgent"] # NoMessage
    /\ \E out \in AgentOutcomes(CustomerTexts) :
         runs' = [runs EXCEPT ![r] =
                    send_message(Raised(@, "CustomerDataAgent", out),
                                 "CustomerDataAgent",
                                 CustomerData(@.handling["CustomerDataAgent"],
                                              out))]
    /\ UNCHANGED <<text, parsed, bpc, num_transactions, transactions, bi,
                   result, summary, alerts, sars>>
    /\ UNCHANGED others

(***************************************************************************)
(* RiskAnalyserAgentExecutor                                               *)
(***************************************************************************)
\* the replies of the risk model within a run
RunReplies == Replies(MaxRunSegs)

\* Assessment, tabulated once over the texts a run can get from the risk
\* model
Assessed ==
    [risk_analysis \in {LastText(out.messages) :
                           out \in AgentOutcomes(RunReplies)} |->
        Assessment(risk_analysis)]

\* the RiskAnalysisResponse of handle(), try and except
RiskAnalysis(customer_response, out) ==
    IF ~out.raised
    THEN LET risk_analysis == LastText(out.messages)
             a == Assessed[risk_analysis]
         IN  RiskAnalysisResponse(customer_response.transaction_id,
                                  customer_response.customer_id,
                                  risk_analysis, a.risk_score, a.risk_level,
                                  a.recommendation, a.status,
                                  customer_response.amount,
                                  customer_response.currency)
    ELSE RiskAnalysisResponse(customer_response.transaction_id,
                              customer_response.customer_id,
                              ErrorText(out.error), 0, "UNKNOWN",
                              "INVESTIGATE", "ERROR", NoAmount, "USD")

RiskAnalyserCall(r) ==
    /\ CanTake(runs[r], "RiskAnalyserAgent", "CustomerDataResponse")
    /\ runs' = [runs EXCEPT ![r] = Take(@, "RiskAnalyserAgent")]
    /\ UNCHANGED <<text, parsed, bpc, num_transactions, transactions, bi,
                   result, summary, alerts, sars>>
    /\ UNCHANGED others

\* a handler that calls the agent again when the call raised
RiskAnalyserRetry(r) ==
    /\ Running(r)
    /\ runs[r].handling["RiskAnalyserAgent"] # NoMessage
    /\ \E out \in AgentOutcomes(RunReplies) :
         runs' = [runs EXCEPT ![r] =
                    IF out.raised /\ @.calls["RiskAnalyserAgent"] < 2
                    THEN [Raised(@, "RiskAnalyserAgent", out) EXCEPT
                            !.calls["RiskAnalyserAgent"] = @ + 1]
                    ELSE send_message(Raised(@, "RiskAnalyserAgent", out),
                                      "RiskAnalyserAgent",
                                      RiskAnalysis(@.handling["RiskAnalyserAgent"],
                                                   out))]
    /\ UNCHANGED <<text, parsed, bpc, num_transactions, transactions, bi,
                   result, summary, alerts, sars>>
    /\ UNCHANGED others

RiskAnalyserResume(r) ==
    /\ Running(r)
    /\ runs[r].handling["RiskAnalyserAgent"] # NoMessage
    /\ \E out \in AgentOutcomes(RunReplies) :
         runs' = [runs EXCEPT ![r] =
                    send_message(Raised(@, "RiskAnalyserAgent", out),
                                 "RiskAnalyserAgent",
                                 RiskAnalysis(@.handling["RiskAnalyserAgent"],
                                              out))]
    /\ UNCHANGED <<text, parsed, bpc, num_transactions, transactions, bi,
                   result, summary, alerts, sars>>
    /\ UNCHANGED others

(***************************************************************************)
(* TelemetryManager: the business metrics of the fraud-alert stage         *)
(***************************************************************************)
record_fraud_alert_created(recorded, alert_id, severity, decision_action, transaction_id) ==
    recorded \cup {[alert_id |-> alert_id, severity |-> severity,
                    decision_action |-> decision_action,
                    transaction_id |-> transaction_id]}

record_sar_filed(recorded, transaction_id, amount_threshold_exceeded, customer_id) ==
    recorded \cup {[transaction_id |-> transaction_id,
                    amount_threshold_exceeded |-> amount_threshold_exceeded,
                    customer_id |-> customer_id]}

(***************************************************************************)
(* FraudAlertAgentExecutor                                                 *)
(***************************************************************************)
Severity(risk_score) ==
    IF risk_score >= 90 THEN "CRITICAL"
    ELSE IF risk_score >= 75 THEN "HIGH"
    ELSE IF risk_score >= 50 THEN "MEDIUM" ELSE "LOW"

\* an alert only when the reply says so
AlertCreatedReplyOnly(alert_response, risk_score) ==
    Contains(lower(alert_response), <<"a","l","e","r","t"," ","c","r","e","a","t","e","d">>)

\* "alert created" in alert_response.lower() or risk_score >= 40
AlertCreated(alert_response, risk_score) ==
    Contains(lower(alert_response), <<"a","l","e","r","t"," ","c","r","e","a","t","e","d">>) \/ risk_score >= 40

\* (risk_response.amount or 0) >= 10000
AmountThreshold(amount) ==
    (IF amount = NoAmount THEN 0 ELSE amount) >= 10000

\* SAR filing for high-risk transactions
SarDue(severity, amount) ==
    severity \in {"CRITICAL", "HIGH"} \/ AmountThreshold(amount)

\* the FraudAlertResponse of handle(), try and except
FraudAlert(risk_response, out) ==
    IF ~out.raised
    THEN LET alert_response == LastText(out.messages)
         IN  FraudAlertResponse(risk_response.transaction_id,
                                risk_response.customer_id, alert_response,
                                AlertCreated(alert_response,
                                             risk_response.risk_score),
                                "SUCCESS", risk_response.risk_score,
                                risk_response.risk_level)
    ELSE FraudAlertResponse(risk_response.transaction_id,
                            risk_response.customer_id, ErrorText(out.error),
                            FALSE, "ERROR", risk_response.risk_score,
                            risk_response.risk_level)

FraudAlertCall(r) ==
    /\ CanTake(runs[r], "FraudAlertAgent", "RiskAnalysisResponse")
    /\ runs' = [runs EXCEPT ![r] = Take(@, "FraudAlertAgent")]
    /\ UNCHANGED <<text, parsed, bpc, num_transactions, transactions, bi,
                   result, summary, alerts, sars>>
    /\ UNCHANGED others

\* a handler whose except branch logs the exception and yields nothing
FraudAlertSilent(r) ==
    /\ Running(r)
    /\ runs[r].handling["FraudAlertAgent"] # NoMessage
    /\ \E out \in AgentOutcomes(AlertTexts) :
         LET risk_response == runs[r].handling["FraudAlertAgent"]
             response == FraudAlert(risk_response, out)
         IN  runs' = [runs EXCEPT ![r] =
                        IF out.raised
                        THEN [Raised(@, "FraudAlertAgent", out) EXCEPT
                                !.handling["FraudAlertAgent"] = NoMessage]
                        ELSE yield_output(@, "FraudAlertAgent", response)]
    /\ UNCHANGED <<text, parsed, bpc, num_transactions, transactions, bi,
                   result, summary, alerts, sars>>
    /\ UNCHANGED others

FraudAlertResume(r) ==
    /\ Running(r)
    /\ runs[r].handling["FraudAlertAgent"] # NoMessage
    /\ \E out \in AgentOutcomes(AlertTexts) :
         LET risk_response == runs[r].handling["FraudAlertAgent"]
             severity == Severity(risk_response.risk_score)
             response == FraudAlert(risk_response, out)
             created == ~out.raised /\ response.alert_created
         IN  /\ runs' = [runs EXCEPT ![r] =
                           yield_output(Raised(@, "FraudAlertAgent", out),
                                        "FraudAlertAgent", response)]
             /\ alerts' =
                  IF created
                  THEN record_fraud_alert_created(
                           alerts, "ALERT-" \o risk_response.transaction_id,
                           severity, risk_response.recommendation,
                           risk_response.transaction_id)
                  ELSE alerts
             /\ sars' =
                  IF created /\ SarDue(severity, risk_response.amount)
                  THEN record_sar_filed(
                           sars, risk_response.transaction_id,
                           AmountThreshold(risk_response.amount),
                           risk_response.customer_id)
                  ELSE sars
    /\ UNCHANGED <<text, parsed, bpc, num_transactions, transactions, bi,
                   result, summary>>
    /\ UNCHANGED others

(***************************************************************************)
(* run_fraud_detection_workflow                                            *)
(***************************************************************************)
\* workflow.run_stream(request)
StartRun(request) ==
    [IdleRun EXCEPT !.pc = "running", !.inbox[StartExecutor] = <<request>>]

\* async for event in workflow.run_stream(request): final_result = event.data
RunStreamEvent(r) ==
    /\ Running(r)
    /\ Len(runs[r].events) > 0
    /\ runs' = [runs EXCEPT ![r].final_result = Head(runs[r].events),
                            ![r].events = Tail(runs[r].events)]
    /\ UNCHANGED <<text, parsed, bpc, num_transactions, transactions, bi,
                   result, summary, alerts, sars>>
    /\ UNCHANGED others

\* the stream ends when no executor has work left: return final_result
WorkflowReturn(r) ==
    /\ Running(r)
    /\ \A e \in Executors :
         Len(runs[r].inbox[e]) = 0 /\ runs[r].handling[e] = NoMessage
    /\ Len(runs[r].events) = 0
    /\ runs' = [runs EXCEPT ![r].pc = "returned"]
    /\ UNCHANGED <<text, parsed, bpc, num_transactions, transactions, bi,
                   result, summary, alerts, sars>>
    /\ UNCHANGED others

(***************************************************************************)
(* multi_transaction_simulator: the batch                                  *)
(***************************************************************************)
AVAILABLE_TRANSACTIONS == <<
    [transaction_id |-> "TX1001", customer_id |-> "CUST1001", amount |-> 5200, currency |-> "USD"],
    [transaction_id |-> "TX1002", customer_id |-> "CUST1002", amount |-> 15000, currency |-> "INR"],
    [transaction_id |-> "TX1003", customer_id |-> "CUST1003", amount |-> 300, currency |-> "CNY"],
    [transaction_id |-> "TX1004", customer_id |-> "CUST1004", amount |-> 9900, currency |-> "AED"],
    [transaction_id |-> "TX1005", customer_id |-> "CUST1005", amount |-> 200, currency |-> "EUR"],
    [transaction_id |-> "TX1006", customer_id |-> "CUST1006", amount |-> 70, currency |-> "GBP"],
    [transaction_id |-> "TX1007", customer_id |-> "CUST1007", amount |-> 1800, currency |-> "RUB"],
    [transaction_id |-> "TX1008", customer_id |-> "CUST1008", amount |-> 40, currency |-> "SOS"],
    [transaction_id |-> "TX1009", customer_id |-> "CUST1009", amount |-> 90, currency |-> "ILS"],
    [transaction_id |-> "TX1010", customer_id |-> "CUST1010", amount |-> 600, currency |-> "IRR"],
    [transaction_id |-> "TX1011", customer_id |-> "CUST1011", amount |-> 220, currency |-> "KRW"],
    [transaction_id |-> "TX1012", customer_id |-> "CUST1012", amount |-> 1100, currency |-> "SYP"],
    [transaction_id |-> "TX1013", customer_id |-> "CUST1013", amount |-> 60, currency |-> "EUR"],
    [transaction_id |-> "TX1014", customer_id |-> "CUST1014", amount |-> 25, currency |-> "YER"],
    [transaction_id |-> "TX2001", customer_id |-> "CUST1005", amount |-> 9999, currency |-> "EUR"],
    [transaction_id |-> "TX2002", customer_id |-> "CUST1005", amount |-> 9998, currency |-> "EUR"],
    [transaction_id |-> "TX2003", customer_id |-> "CUST1005", amount |-> 9997, currency |-> "EUR"]
  >>

TransactionResult(transaction) ==
    [transaction_id |-> transaction.transaction_id,
     customer_id |-> transaction.customer_id,
     amount |-> transaction.amount,
     currency |-> transaction.currency,
     risk_score |-> 0, risk_level |-> "UNKNOWN", alert_created |-> FALSE,
     alert_severity |-> "NONE", status |-> "PENDING"]

BatchRunSummary ==
    [total_transactions |-> 0, successful |-> 0, failed |-> 0,
     alerts_created |-> 0, total_amount_processed |-> 0,
     total_amount_blocked |-> 0, results |-> <<>>]

\* one pass of the loop without the .copy(): tx is the seed entry itself, so
\* the new transaction_id is written into AVAILABLE_TRANSACTIONS
PrepareStepAliased(st, i) ==
    LET at == (i % Len(st.available)) + 1
        tx == st.available[at]
        renamed == IF i >= Len(st.available)
                   THEN [tx EXCEPT !.transaction_id =
                            @ \o "-" \o ToString(i \div Len(st.available))]
                   ELSE tx
    IN  [available |-> [st.available EXCEPT ![at] = renamed],
         transactions |-> Append(st.transactions, renamed)]

\* one pass of the loop that prepares the list:
\*     tx = AVAILABLE_TRANSACTIONS[i % len(AVAILABLE_TRANSACTIONS)].copy()
\*     if i >= len(AVAILABLE_TRANSACTIONS): tx["transaction_id"] = f"{...}-{i // len(...)}"
\*     transactions.append(tx)
\* st holds the module's list (available) and the list being built
PrepareStep(st, i) ==
    LET at == (i % Len(st.available)) + 1
        tx == st.available[at]
        renamed == IF i >= Len(st.available)
                   THEN [tx EXCEPT !.transaction_id =
                            @ \o "-" \o ToString(i \div Len(st.available))]
                   ELSE tx
    IN  [available |-> st.available,
         transactions |-> Append(st.transactions, renamed)]

\* for i in range(num_transactions), from pass i on
RECURSIVE PrepareLoop(_, _, _)
PrepareLoop(st, i, n) ==
    IF i >= n THEN st ELSE PrepareLoop(PrepareStep(st, i), i + 1, n)

\* the module's list and the prepared list after the loop
PrepareList(n) ==
    PrepareLoop([available |-> AVAILABLE_TRANSACTIONS, transactions |-> <<>>], 0, n)

\* Prepare transaction list
Prepared(n) == PrepareList(n).transactions

\* random.shuffle: any order of the same entries
Shuffles(list) ==
    {[i \in 1..Len(list) |-> list[p[i]]] : p \in Permutations(1..Len(list))}

\* process_single_transaction, after the workflow has ended
Processed(pending, run) ==
    IF run.pc = "failed"
    THEN [pending EXCEPT !.status = "ERROR"]
    ELSE IF run.final_result = NoMessage
    THEN [pending EXCEPT !.status = "NO_RESULT"]
    ELSE LET workflow_result == run.final_result
         IN  [pending EXCEPT
                !.status = workflow_result.workflow_status,
                !.alert_created = workflow_result.alert_created,
                !.risk_score = workflow_result.risk_score,
                !.risk_level = workflow_result.risk_level,
                !.alert_severity =
                    IF workflow_result.alert_created
                    THEN Severity(workflow_result.risk_score)
                    ELSE "NONE"]

\* counters whose second branch lost its else
CountedTwice(sum, res) ==
    [sum EXCEPT
       !.results = Append(@, res),
       !.successful = IF res.status = "SUCCESS" THEN @ + 1 ELSE @,
       !.failed = @ + 1,
       !.alerts_created = IF res.alert_created THEN @ + 1 ELSE @,
       !.total_amount_blocked = IF res.alert_created THEN @ + res.amount ELSE @,
       !.total_amount_processed = @ + res.amount]

\* Update counters
Counted(sum, res) ==
    [sum EXCEPT
       !.results = Append(@, res),
       !.successful = IF res.status = "SUCCESS" THEN @ + 1 ELSE @,
       !.failed = IF res.status = "SUCCESS" THEN @ ELSE @ + 1,
       !.alerts_created = IF res.alert_created THEN @ + 1 ELSE @,
       !.total_amount_blocked = IF res.alert_created THEN @ + res.amount ELSE @,
       !.total_amount_processed = @ + res.amount]

\* run_batch_simulation up to the loop
Prepare ==
    /\ bpc = "start"
    /\ \E shuffle_transactions \in BOOLEAN :
         transactions' \in IF shuffle_transactions
                           THEN Shuffles(Prepared(num_transactions))
                           ELSE {Prepared(num_transactions)}
    /\ summary' = [BatchRunSummary EXCEPT
                     !.total_transactions = num_transactions]
    /\ bi' = 0
    /\ bpc' = "loop"
    /\ UNCHANGED <<text, parsed, num_transactions, result, runs, alerts, sars>>
    /\ UNCHANGED others

\* a loop that starts the next transaction without awaiting the one before
LoopNextEager ==
    /\ bpc \in {"loop", "await", "sleep"}
    /\ bi < Len(transactions)
    /\ bi' = bi + 1
    /\ LET transaction == transactions[bi + 1]
       IN  /\ result' = TransactionResult(transaction)
           /\ runs' = [runs EXCEPT ![bi + 1] =
                         StartRun(AnalysisRequest(transaction.transaction_id,
                                                  transaction.customer_id,
                                                  transaction.amount,
                                                  transaction.currency))]
    /\ bpc' = "await"
    /\ UNCHANGED <<text, parsed, num_transactions, transactions, summary,
                   alerts, sars>>
    /\ UNCHANGED others

\* for i, transaction in enumerate(transactions, 1):
\*     result = await process_single_transaction(transaction, telemetry)
\* up to the await of run_fraud_detection_workflow
LoopNext ==
    /\ bpc = "loop"
    /\ bi < Len(transactions)
    /\ bi' = bi + 1
    /\ LET transaction == transactions[bi + 1]
       IN  /\ result' = TransactionResult(transaction)
           /\ runs' = [runs EXCEPT ![bi + 1] =
                         StartRun(AnalysisRequest(transaction.transaction_id,
                                                  transaction.customer_id,
                                                  transaction.amount,
                                                  transaction.currency))]
    /\ bpc' = "await"
    /\ UNCHANGED <<text, parsed, num_transactions, transactions, summary,
                   alerts, sars>>
    /\ UNCHANGED others

\* the workflow has ended: the rest of process_single_transaction, then
\* summary.results.append(result) and the counters, up to the sleep
Collect ==
    /\ bpc = "await"
    /\ runs[bi].pc \in {"returned", "failed"}
    /\ result' = Processed(result, runs[bi])
    /\ summary' = Counted(summary, result')
    /\ runs' = [runs EXCEPT ![bi] = DoneRun]
    /\ bpc' = IF bi < num_transactions THEN "sleep" ELSE "loop"
    /\ UNCHANGED <<text, parsed, num_transactions, transactions, bi,
                   alerts, sars>>
    /\ UNCHANGED others

\* await asyncio.sleep(delay)
Sleep ==
    /\ bpc = "sleep"
    /\ bpc' = "loop"
    /\ UNCHANGED <<text, parsed, num_transactions, transactions, bi, result,
                   summary, runs, alerts, sars>>
    /\ UNCHANGED others

\* after the loop: the batch-completed event, the summary, return summary
BatchReturn ==
    /\ bpc = "loop"
    /\ bi >= Len(transactions)
    /\ bpc' = "done"
    /\ UNCHANGED <<text, parsed, num_transactions, transactions, bi, result,
                   summary, runs, alerts, sars>>
    /\ UNCHANGED others

Init ==
    /\ text = <<>>
    /\ parsed = [status |-> "PENDING"]
    /\ bpc = "start"
    /\ num_transactions \in 0..MaxTransactions
    /\ transactions = <<>>
    /\ bi = 0
    /\ result = [status |-> "PENDING"]
    /\ summary = BatchRunSummary
    /\ runs = [r \in Slots |-> IdleRun]
    /\ alerts = {}
    /\ sars = {}
    /\ OthersAtImport

Next ==
    \/ Prepare
    \/ LoopNext
    \/ Collect
    \/ Sleep
    \/ BatchReturn
    \/ \E r \in Slots :
         \/ CustomerDataCall(r)
         \/ CustomerDataResume(r)
         \/ RiskAnalyserCall(r)
         \/ RiskAnalyserResume(r)
         \/ FraudAlertCall(r)
         \/ FraudAlertResume(r)
         \/ RunStreamEvent(r)
         \/ WorkflowReturn(r)

Spec == Init /\ [][Next]_vars

\* the event loop runs whatever is ready, and every call of a hosted agent
\* returns or raises
FairSpec == Spec /\ WF_vars(Next)

(***************************************************************************)
(* The parser on its own: a reply, and what handle() derives from it       *)
(***************************************************************************)
NotParsed == [status |-> "PENDING"]

ParseInit ==
    /\ text \in Replies(MaxSegs)
    /\ parsed = NotParsed
    /\ bpc = "off"
    /\ num_transactions = 0
    /\ transactions = <<>>
    /\ bi = 0
    /\ result = NotParsed
    /\ summary = NotParsed
    /\ runs = <<>>
    /\ alerts = {}
    /\ sars = {}
    /\ OthersAtImport

ParseReply ==
    /\ bpc = "off"
    /\ parsed = NotParsed
    /\ parsed' = Assessment(text)
    /\ UNCHANGED <<text, bpc, num_transactions, transactions, bi, result,
                   summary, runs, alerts, sars>>
    /\ UNCHANGED others

ParseNext == ParseReply

SpecParse == ParseInit /\ [][ParseNext]_vars


(***************************************************************************)
(* Properties                                                              *)
(***************************************************************************)
\* what the executors of a run did, in order, the exceptions left out
Steps(run) ==
    LET acts == SelectSeq(run.trace, LAMBDA ev : ev.ev # "raise")
    IN  [i \in 1..Len(acts) |-> <<acts[i].ev, acts[i].by>>]

StageOrder ==
    << <<"handle", "CustomerDataAgent">>, <<"send", "CustomerDataAgent">>,
       <<"handle", "RiskAnalyserAgent">>, <<"send", "RiskAnalyserAgent">>,
       <<"handle", "FraudAlertAgent">>, <<"yield", "FraudAlertAgent">> >>

\* C1: in every run the stages act in the order CustomerDataAgent,
\* RiskAnalyserAgent, FraudAlertAgent: what a run has done so far is a prefix
\* of handle, send, handle, send, handle, yield (so a stage starts after its
\* predecessor has sent, and handles one message), and a run that has
\* returned has done all of it (no stage skipped, none visited twice).
C1_FixedStageOrder ==
    \A r \in Slots :
        LET steps == Steps(runs[r])
        IN  /\ Len(steps) <= Len(StageOrder)
            /\ \A i \in 1..Len(steps) : steps[i] = StageOrder[i]
            /\ runs[r].pc = "returned" => Len(steps) = Len(StageOrder)

C1_Witness ==
    \E r \in Slots :
        runs[r].pc = "returned" /\ Steps(runs[r]) = StageOrder

\* the text of a response
ResponseText(msg) ==
    IF msg.type = "CustomerDataResponse" THEN msg.analysis
    ELSE IF msg.type = "RiskAnalysisResponse" THEN msg.risk_analysis
    ELSE msg.alert_response

\* the status of a response
ResponseStatus(msg) ==
    IF msg.type = "FraudAlertResponse" THEN msg.workflow_status ELSE msg.status

\* C2: no stage retries. Every stage of a run calls its agent at most once;
\* when the call raised, the next thing the stage does is to emit its
\* response, with status ERROR and the text "Error: <message>"; and no run
\* fails with an exception that left a handler.
C2_NoRetryReportsError ==
    \A r \in Slots :
        /\ runs[r].pc # "failed"
        /\ \A e \in Executors : runs[r].calls[e] <= 1
        /\ \A i \in 1..Len(runs[r].trace) :
              runs[r].trace[i].ev = "raise" =>
                 /\ i < Len(runs[r].trace)
                 /\ LET raise == runs[r].trace[i]
                        next == runs[r].trace[i + 1]
                    IN  /\ next.ev \in {"send", "yield"}
                        /\ next.by = raise.by
                        /\ ResponseStatus(next.msg) = "ERROR"
                        /\ ResponseText(next.msg) = ErrorText(raise.msg.error)

C2_Witness ==
    \E r \in Slots : \E i \in 1..Len(runs[r].trace) :
        /\ runs[r].trace[i].ev = "raise"
        /\ runs[r].trace[i].by = "RiskAnalyserAgent"
        /\ runs[r].pc = "returned"

Scored(run) ==
    {run.trace[i].msg : i \in {j \in 1..Len(run.trace) :
        /\ run.trace[j].ev \in {"send", "yield"}
        /\ run.trace[j].msg.type \in {"RiskAnalysisResponse",
                                      "FraudAlertResponse"}}}

\* the FraudAlertResponses a run has yielded so far
Yielded(run) ==
    {run.trace[i].msg : i \in {j \in 1..Len(run.trace) :
                                  run.trace[j].ev = "yield"}}

\* C4: every RiskAnalysisResponse sent and every FraudAlertResponse yielded
\* or returned has a risk score in 0..100, whatever the model replied and on
\* the error paths too.
C4_ScoreInRange ==
    \A r \in Slots :
        /\ \A msg \in Scored(runs[r]) :
              msg.risk_score >= 0 /\ msg.risk_score <= 100
        /\ runs[r].final_result # NoMessage =>
              /\ runs[r].final_result.risk_score >= 0
              /\ runs[r].final_result.risk_score <= 100

\* the model gave a score out of range, and the run has yielded its response
C4_Witness ==
    \E r \in Slots : \E msg \in Scored(runs[r]) :
        /\ msg.type = "RiskAnalysisResponse"
        /\ msg.status = "SUCCESS"
        /\ \E i \in 1..Len(patterns) :
              LET match == search(patterns[i], lower(msg.risk_analysis))
              IN  match.ok /\ int(match.group) > 100
        /\ Yielded(runs[r]) # {}

SaysAlertCreated(alert_response) ==
    Contains(lower(alert_response),
             <<"a","l","e","r","t"," ","c","r","e","a","t","e","d">>)

\* C8 as claimed: every FraudAlertResponse yielded with a risk score of at
\* least 40 has alert_created, and one with a lower score has it only if the
\* reply contains "alert created".
C8_AlertWheneverScore40 ==
    \A r \in Slots : \A msg \in Yielded(runs[r]) :
        /\ msg.risk_score >= 40 => msg.alert_created
        /\ msg.risk_score < 40 /\ msg.alert_created =>
              SaysAlertCreated(msg.alert_response)

\* C8 as amended: every FraudAlertResponse yielded with workflow_status
\* SUCCESS and a risk score of at least 40 has alert_created, and one with a
\* lower score has it only if the reply contains "alert created"; one with
\* workflow_status ERROR never has alert_created.
C8_AlertOnSuccessScore40 ==
    \A r \in Slots : \A msg \in Yielded(runs[r]) :
        /\ msg.workflow_status = "SUCCESS" /\ msg.risk_score >= 40 =>
              msg.alert_created
        /\ msg.risk_score < 40 /\ msg.alert_created =>
              SaysAlertCreated(msg.alert_response)
        /\ msg.workflow_status = "ERROR" => ~msg.alert_created

\* an alert for a score of at least 40 although the reply does not say so
C8_Witness ==
    \E r \in Slots : \E msg \in Yielded(runs[r]) :
        /\ msg.workflow_status = "SUCCESS"
        /\ msg.risk_score >= 40
        /\ msg.alert_created
        /\ ~SaysAlertCreated(msg.alert_response)

\* the amount of the transaction of the batch with this id
AmountOf(transaction_id) ==
    LET i == CHOOSE j \in 1..Len(transactions) :
                 transactions[j].transaction_id = transaction_id
    IN  transactions[i].amount

\* C9: a SAR is recorded for a transaction only when a fraud alert was
\* created for it and the amount is above 10000 or the severity is CRITICAL.
C9_SarOnlyAtThreshold ==
    \A sar \in sars :
        \E alert \in alerts :
            /\ alert.transaction_id = sar.transaction_id
            /\ \/ AmountOf(sar.transaction_id) > 10000
               \/ alert.severity = "CRITICAL"

\* C10: the batch runs one workflow at a time, in the order of the list: a
\* run is started only when every run before it has ended and its result has
\* been appended to summary.results and counted.
C10_OneRunAtATime ==
    /\ Cardinality({r \in Slots : runs[r].pc \in {"running", "returned"}}) <= 1
    /\ \A r \in Slots :
          runs[r].pc # "idle" =>
             /\ r <= Len(transactions)
             /\ \A q \in 1..(r - 1) : runs[q].pc = "done"
             /\ Len(summary.results) >= r - 1
             /\ summary.successful + summary.failed >= r - 1
    /\ \A j \in 1..Len(summary.results) :
          summary.results[j].transaction_id = transactions[j].transaction_id

\* the second workflow runs, the first result is in the summary
C10_Witness ==
    /\ Len(transactions) >= 2
    /\ runs[2].pc = "running"
    /\ Len(summary.results) = 1
    /\ summary.successful + summary.failed = 1

\* the patterns whose first match in low is a score in 0..100
Accepting(low) ==
    {i \in 1..Len(patterns) :
        LET match == search(patterns[i], low)
        IN  match.ok /\ int(match.group) >= 0 /\ int(match.group) <= 100}

\* the score the first match of the i-th pattern captures
Captured(low, i) == int(search(patterns[i], low).group)

First(S) == CHOOSE i \in S : \A j \in S : i <= j

\* C5: when some pattern's first match in the lower-cased reply is a score in
\* 0..100, the risk score is the one captured by the first such pattern in
\* the listed order: patterns that do not match or whose first match is out
\* of range are passed over, and later patterns do not override it.
C5_FirstAcceptedPattern ==
    parsed.status = "SUCCESS" =>
        LET low == lower(text)
        IN  Accepting(low) # {} =>
               parsed.risk_score = Captured(low, First(Accepting(low)))

\* an earlier pattern matched a score out of range, a later one was taken,
\* and a pattern after that one had another score in range
C5_Witness ==
    /\ parsed.status = "SUCCESS"
    /\ LET low == lower(text)
           acc == Accepting(low)
       IN  /\ acc # {}
           /\ \E i \in 1..Len(patterns) :
                 /\ i < First(acc)
                 /\ search(patterns[i], low).ok
           /\ \E k \in acc : Captured(low, k) # Captured(low, First(acc))
           /\ parsed.risk_score = Captured(low, First(acc))

\* some word of ws is in low
ContainsAny(low, ws) == \E i \in 1..Len(ws) : Contains(low, ws[i])

\* some word of ws is in low where a word starts
StartsWord(low, ws) ==
    \E i \in 1..Len(ws) : \E pos \in 1..Len(low) :
        HasAt(low, pos, ws[i]) /\ ~IsWordAt(low, pos - 1)

\* C6 as claimed: the keyword fallback decides only when no pattern gave a
\* score in range, and then the score is 85 if the reply contains high,
\* critical or severe, otherwise 55 if it contains medium or moderate,
\* otherwise 25 if it contains low or minimal, otherwise 50.
C6_KeywordFallbackContains ==
    parsed.status = "SUCCESS" =>
        LET low == lower(text)
        IN  /\ Accepting(low) # {} =>
                  parsed.risk_score \in {Captured(low, i) : i \in Accepting(low)}
            /\ Accepting(low) = {} =>
                  parsed.risk_score =
                     IF ContainsAny(low, HighWords) THEN 85
                     ELSE IF ContainsAny(low, MediumWords) THEN 55
                     ELSE IF ContainsAny(low, LowWords) THEN 25
                     ELSE 50

\* C6 as amended: the same, a keyword counting only where a word starts
\* (the keyword is not preceded by a letter, a digit or an underscore).
C6_KeywordFallbackWordStart ==
    parsed.status = "SUCCESS" =>
        LET low == lower(text)
        IN  /\ Accepting(low) # {} =>
                  parsed.risk_score \in {Captured(low, i) : i \in Accepting(low)}
            /\ Accepting(low) = {} =>
                  parsed.risk_score =
                     IF StartsWord(low, HighWords) THEN 85
                     ELSE IF StartsWord(low, MediumWords) THEN 55
                     ELSE IF StartsWord(low, LowWords) THEN 25
                     ELSE 50

\* no pattern gave a score, the reply has a high-risk and a low-risk word,
\* and the high-risk class won
C6_Witness ==
    /\ parsed.status = "SUCCESS"
    /\ Accepting(lower(text)) = {}
    /\ StartsWord(lower(text), HighWords)
    /\ StartsWord(lower(text), LowWords)
    /\ parsed.risk_score = 85

\* C7: in a response with status SUCCESS the level and the recommendation
\* follow from the score: HIGH and BLOCK from 75 on, MEDIUM and INVESTIGATE
\* from 40 to 74, LOW and ALLOW below 40; so BLOCK exactly when HIGH.
C7_LevelFromScore ==
    parsed.status = "SUCCESS" =>
        /\ parsed.risk_score >= 75 =>
              parsed.risk_level = "HIGH" /\ parsed.recommendation = "BLOCK"
        /\ parsed.risk_score >= 40 /\ parsed.risk_score < 75 =>
              /\ parsed.risk_level = "MEDIUM"
              /\ parsed.recommendation = "INVESTIGATE"
        /\ parsed.risk_score < 40 =>
              parsed.risk_level = "LOW" /\ parsed.recommendation = "ALLOW"
        /\ parsed.recommendation = "BLOCK" <=> parsed.risk_level = "HIGH"

\* a score on a threshold
C7_Witness ==
    /\ parsed.status = "SUCCESS"
    /\ parsed.risk_score = 75
    /\ parsed.risk_level = "HIGH"
    /\ parsed.recommendation = "BLOCK"

\* the results with status SUCCESS
Successes(results) ==
    {i \in 1..Len(results) : results[i].status = "SUCCESS"}

\* C11: the counters of the batch summary partition the processed
\* transactions: successful + failed is the number of results, successful
\* counts the results with status SUCCESS, after every iteration every
\* transaction taken so far has its result, and when run_batch_simulation
\* returns successful + failed = total_transactions = num_transactions.
C11_CountersPartition ==
    bpc \in {"loop", "await", "sleep", "done"} =>
        /\ summary.successful + summary.failed = Len(summary.results)
        /\ summary.successful = Cardinality(Successes(summary.results))
        /\ bpc \in {"loop", "sleep", "done"} => Len(summary.results) = bi
        /\ bpc = "done" =>
              /\ summary.successful + summary.failed = summary.total_transactions
              /\ summary.total_transactions = num_transactions

\* a batch has returned with one transaction of each kind
C11_Witness ==
    /\ bpc = "done"
    /\ num_transactions = 2
    /\ summary.successful = 1
    /\ summary.failed = 1
    /\ summary.results[1].status # summary.results[2].status

(***************************************************************************)
(* The preparation of the transaction list on its own                      *)
(***************************************************************************)
PrepInit ==
    /\ text = <<>>
    /\ parsed = NotParsed
    /\ bpc = "prep"
    /\ num_transactions \in 0..MaxPrepared
    /\ transactions = <<>>
    /\ bi = 0
    /\ result = [status |-> "PENDING"]
    /\ summary = BatchRunSummary
    /\ runs = <<>>
    /\ alerts = {}
    /\ sars = {}
    /\ OthersAtImport

\* transactions = []; for i in range(num_transactions): ...
PrepList ==
    /\ bpc = "prep"
    /\ transactions' = Prepared(num_transactions)
    /\ bpc' = "prepared"
    /\ UNCHANGED <<text, parsed, num_transactions, bi, result, summary, runs,
                   alerts, sars>>
    /\ UNCHANGED others

\* if shuffle_transactions: random.shuffle(transactions)
PrepShuffle ==
    /\ bpc = "prepared"
    /\ \E shuffle_transactions \in
            IF Len(transactions) <= MaxShuffled THEN BOOLEAN ELSE {FALSE} :
         transactions' \in IF shuffle_transactions
                           THEN Shuffles(transactions)
                           ELSE {transactions}
    /\ bpc' = "shuffled"
    /\ UNCHANGED <<text, parsed, num_transactions, bi, result, summary, runs,
                   alerts, sars>>
    /\ UNCHANGED others

PrepNext == PrepList \/ PrepShuffle

SpecPrepare == PrepInit /\ [][PrepNext]_vars

\* seed transaction i mod 17, with the suffix of its round past the first
Expected(i) ==
    LET seed == AVAILABLE_TRANSACTIONS[(i % 17) + 1]
    IN  IF i < 17 THEN seed
        ELSE [seed EXCEPT !.transaction_id = @ \o "-" \o ToString(i \div 17)]

\* C12: the prepared list has num_transactions entries, entry i is seed
\* transaction i mod 17 (with the suffix -<i div 17> on its transaction_id
\* past the first 17), all transaction_id values in it are pairwise distinct,
\* AVAILABLE_TRANSACTIONS is left as it was, and shuffling changes only the
\* order of the entries.
C12_PreparedList ==
    bpc \in {"prepared", "shuffled"} =>
        /\ Len(transactions) = num_transactions
        /\ \A i, j \in 1..Len(transactions) :
              i # j => transactions[i].transaction_id # transactions[j].transaction_id
        /\ bpc = "prepared" =>
              \A i \in 1..Len(transactions) : transactions[i] = Expected(i - 1)
        /\ {transactions[i] : i \in 1..Len(transactions)} =
              {Expected(i) : i \in 0..(num_transactions - 1)}
        /\ PrepareList(num_transactions).available = AVAILABLE_TRANSACTIONS

\* a list that goes into a third round over the seed transactions
C12_Witness ==
    /\ bpc = "prepared"
    /\ num_transactions >= 35
    /\ transactions[1].transaction_id = "TX1001"
    /\ transactions[18].transaction_id = "TX1001-1"
    /\ transactions[35].transaction_id = "TX1001-2"
    /\ transactions[35].amount = 5200

(***************************************************************************)
(* The shared client of workflow.py, and cleanup() of the batch simulator  *)
(***************************************************************************)
\* the fraud workflow and the batch run, not started
FraudAtImport ==
    /\ text = <<>>
    /\ parsed = NotParsed
    /\ bpc = "off"
    /\ num_transactions = 0
    /\ transactions = <<>>
    /\ bi = 0
    /\ result = NotParsed
    /\ summary = NotParsed
    /\ runs = <<>>
    /\ alerts = {}
    /\ sars = {}

\* the next object constructed
NewObject == Cardinality(credentials) + Cardinality(clients) + 1

\* a call that returned value, and a call that raised error
Returned(value) == [value |-> value, error |-> "None"]
RaisedError(error) == [value |-> NoObject, error |-> error]

\* a process whose environment may lack the endpoint
ClientInit ==
    /\ endpoint \in BOOLEAN
    /\ project_client = NoObject
    /\ credential = NoObject
    /\ credentials = {}
    /\ clients = {}
    /\ closed = {}
    /\ returned = <<>>
    /\ FraudAtImport
    /\ ChatAtImport
    /\ StoreAtImport

\* get_project_client: it has no await, so a call runs in one piece.
\*     if _project_client is None:
\*         _credential = DefaultAzureCredential()
\*         _project_client = AIProjectClient(
\*             endpoint=os.environ["AI_FOUNDRY_PROJECT_ENDPOINT"], credential=_credential)
\*     return _project_client
\* os.environ[...] raises KeyError after _credential has been assigned
get_project_client ==
    /\ Len(returned) < MaxCalls
    /\ IF project_client # NoObject
       THEN /\ returned' = Append(returned, Returned(project_client))
            /\ UNCHANGED <<project_client, credential, credentials, clients>>
       ELSE /\ credential' = NewObject
            /\ credentials' = credentials \cup {NewObject}
            /\ IF endpoint
               THEN /\ project_client' = NewObject + 1
                    /\ clients' = clients \cup {NewObject + 1}
                    /\ returned' = Append(returned, Returned(NewObject + 1))
               ELSE /\ returned' = Append(returned, RaisedError("KeyError"))
                    /\ UNCHANGED <<project_client, clients>>
    /\ UNCHANGED <<endpoint, closed>>
    /\ UNCHANGED <<fraud, chat, store>>

\* cleanup of the batch simulator: closes what the globals hold and leaves
\* the globals of workflow.py as they are
cleanup ==
    /\ closed' = closed \cup ({project_client, credential} \ {NoObject})
    /\ closed' # closed
    /\ UNCHANGED <<endpoint, project_client, credential, credentials, clients,
                   returned>>
    /\ UNCHANGED <<fraud, chat, store>>

ClientNext == get_project_client \/ cleanup

SpecClient == ClientInit /\ [][ClientNext]_vars

\* C13: over any sequence of calls of get_project_client at most one
\* AIProjectClient and one credential are constructed, and every call that
\* returns gives that same client.
C13_OneSharedClient ==
    /\ Cardinality(clients) <= 1
    /\ Cardinality(credentials) <= 1
    /\ \A i \in 1..Len(returned) :
          returned[i].error = "None" => returned[i].value \in clients

(***************************************************************************)
(* sequential_agents.py: ResearcherAgent -> WriterAgent -> ReviewerAgent   *)
(***************************************************************************)
\* .add_edge("ResearcherAgent", "WriterAgent").add_edge("WriterAgent", "ReviewerAgent")
\* .set_start_executor("ResearcherAgent")
SeqExecutors == <<"ResearcherAgent", "WriterAgent", "ReviewerAgent">>

\* ChatAgent(name=...) of each executor
SeqAgents == <<"Researcher", "Writer", "Reviewer">>

ChatMessage(role, author_name, msg_text) ==
    [role |-> role, author_name |-> author_name, text |-> msg_text]

\* texts of the messages
Texts == {"x", "y"}

\* the sequences over S of length lo..hi
SeqsOf(S, lo, hi) == UNION {[1..n -> S] : n \in lo..hi}

\* what run_stream is given: main() gives one ChatMessage; the start
\* executor also takes a list of them
Tasks ==
    {[is_list |-> FALSE, value |-> <<ChatMessage("user", "None", "task")>>]}
    \cup {[is_list |-> TRUE, value |-> v] :
             v \in SeqsOf({ChatMessage("user", "None", t) : t \in {"task"}}, 1, MaxTask)}

\* what agent.run can do: reply with some messages, or raise
SeqOutcomes(agent) ==
    {[raised |-> FALSE, messages |-> m] :
        m \in SeqsOf({ChatMessage("assistant", agent, t) : t \in Texts}, 0, MaxResponse)}
    \cup {[raised |-> TRUE, messages |-> <<>>]}

\* a handler that hands on the reply alone
extend_replaced(list, response_messages) == response_messages

\* messages.extend(response.messages)
extend(list, response_messages) == list \o response_messages

\* a workflow that has not run
SeqInit ==
    /\ task \in Tasks
    /\ seq_pc = "idle"
    /\ stage = 0
    /\ conversation = <<>>
    /\ agent_runs = <<>>
    /\ seq_outputs = <<>>
    /\ FraudAtImport
    /\ ClientAtImport
    /\ StoreAtImport

\* workflow.run_stream(...): the start executor gets the message
run_stream ==
    /\ seq_pc = "idle"
    /\ stage' = 1
    /\ seq_pc' = "ready"
    /\ UNCHANGED <<task, conversation, agent_runs, seq_outputs>>
    /\ UNCHANGED <<fraud, client, store>>

\* handle of executor i up to its await: ResearcherAgentExecutor makes a list
\* of a single message; then response = await self.agent.run(messages)
handle_call(i) ==
    /\ seq_pc = "ready"
    /\ stage = i
    /\ conversation' = IF i = 1 THEN task.value ELSE conversation
    /\ agent_runs' = Append(agent_runs,
                            [agent |-> SeqExecutors[i], messages |-> conversation',
                             state |-> "awaited", response |-> <<>>])
    /\ seq_pc' = "running"
    /\ UNCHANGED <<task, stage, seq_outputs>>
    /\ UNCHANGED <<fraud, client, store>>

\* handle of executor i from its await on: agent.run raises, or the print of
\* response.messages[-1] raises IndexError on an empty reply, or
\* messages.extend(response.messages) and the list is sent on (yielded by the
\* last executor)
handle_resume(i) ==
    /\ seq_pc = "running"
    /\ stage = i
    /\ \E out \in SeqOutcomes(SeqAgents[i]) :
         IF out.raised
         THEN /\ agent_runs' = [agent_runs EXCEPT ![Len(agent_runs)].state = "raised"]
              /\ seq_pc' = "failed"
              /\ UNCHANGED <<stage, conversation, seq_outputs>>
         ELSE /\ agent_runs' = [agent_runs EXCEPT
                                  ![Len(agent_runs)].state = "returned",
                                  ![Len(agent_runs)].response = out.messages]
              /\ IF out.messages = <<>>
                 THEN /\ seq_pc' = "failed"
                      /\ UNCHANGED <<stage, conversation, seq_outputs>>
                 ELSE /\ conversation' = extend(conversation, out.messages)
                      /\ IF i < Len(SeqExecutors)
                         THEN /\ stage' = i + 1
                              /\ seq_pc' = "ready"
                              /\ UNCHANGED seq_outputs
                         ELSE /\ seq_outputs' = Append(seq_outputs, conversation')
                              /\ seq_pc' = "done"
                              /\ UNCHANGED stage
    /\ UNCHANGED task
    /\ UNCHANGED <<fraud, client, store>>

ResearcherCall == handle_call(1)
ResearcherResume == handle_resume(1)
WriterCall == handle_call(2)
WriterResume == handle_resume(2)
ReviewerCall == handle_call(3)
ReviewerResume == handle_resume(3)

SeqNext ==
    \/ run_stream
    \/ ResearcherCall
    \/ ResearcherResume
    \/ WriterCall
    \/ WriterResume
    \/ ReviewerCall
    \/ ReviewerResume

SpecSeq == SeqInit /\ [][SeqNext]_vars

\* the replies of the first n agent runs, one after the other
RECURSIVE ResponsesOf(_, _)
ResponsesOf(history, n) ==
    IF n = 0 THEN <<>>
    ELSE ResponsesOf(history, n - 1) \o history[n].response

\* C14: the conversation is append-only and ordered: the agents run in the
\* order Researcher, Writer, Reviewer, each once at most and each on exactly
\* the initial message(s) followed by the replies of the agents before it;
\* the list in hand is always the initial message(s) followed by the replies
\* so far; and the one output yielded is the initial message(s), then the
\* Researcher's reply, then the Writer's, then the Reviewer's.
C14_ConversationOrdered ==
    /\ Len(agent_runs) <= Len(SeqExecutors)
    /\ \A i \in 1..Len(agent_runs) :
          /\ agent_runs[i].agent = SeqExecutors[i]
          /\ agent_runs[i].messages = task.value \o ResponsesOf(agent_runs, i - 1)
          /\ \A m \in 1..Len(agent_runs[i].response) :
                agent_runs[i].response[m].author_name = SeqAgents[i]
    /\ agent_runs # <<>> =>
          conversation = task.value \o ResponsesOf(agent_runs, Len(agent_runs))
    /\ Len(seq_outputs) <= 1
    /\ (seq_pc = "done") = (Len(seq_outputs) = 1)
    /\ \A o \in 1..Len(seq_outputs) :
          /\ Len(agent_runs) = 3
          /\ seq_outputs[o] = task.value \o agent_runs[1].response
                                 \o agent_runs[2].response \o agent_runs[3].response

\* a run started with a list of two messages, in which the agents replied
\* with two, one and two messages
C14_Witness ==
    /\ seq_pc = "done"
    /\ task.is_list
    /\ Len(task.value) = 2
    /\ Len(agent_runs[1].response) = 2
    /\ Len(agent_runs[2].response) = 1
    /\ Len(agent_runs[3].response) = 2
    /\ Len(seq_outputs[1]) = 7
    /\ seq_outputs[1][3].author_name = "Researcher"
    /\ seq_outputs[1][5].author_name = "Writer"
    /\ seq_outputs[1][7].author_name = "Reviewer"

(***************************************************************************)
(* agents/fraud_alert_agent.py: the tools create_fraud_alert and           *)
(* get_fraud_alert.  Their results are strings, built as the f-strings     *)
(* build them.                                                             *)
(***************************************************************************)
SEVERITY_LEVELS == <<"LOW", "MEDIUM", "HIGH", "CRITICAL">>
STATUS_VALUES == <<"OPEN", "INVESTIGATING", "RESOLVED", "FALSE_POSITIVE">>
DECISION_ACTIONS == <<"ALLOW", "BLOCK", "MONITOR", "INVESTIGATE">>

\* x in list
In(x, list) == \E i \in 1..Len(list) : list[i] = x

\* str() of a list of strings, from entry i on: 'LOW', 'MEDIUM', ...
RECURSIVE ReprFrom(_, _)
ReprFrom(list, i) ==
    IF i > Len(list) THEN ""
    ELSE "'" \o list[i] \o "'"
         \o (IF i < Len(list) THEN ", " ELSE "") \o ReprFrom(list, i + 1)

\* f"{list}"
Repr(list) == "[" \o ReprFrom(list, 1) \o "]"

\* the arguments the model calls the tools with
TransactionIds == {"TX1001", "TX1002"}
Severities == {"HIGH", "high"}
Statuses == {"OPEN", "CLOSED"}
Decisions == {"BLOCK", "DENY"}
AlertIds == {"ALERT-TX1001", "ALERT-TX1002", "ALERT-TX9999"}

\* validation without the check of status
InvalidUnlessStatus(severity, status, decision_action) ==
    IF ~In(severity, SEVERITY_LEVELS)
    THEN "Invalid severity: " \o severity \o ". Must be one of " \o Repr(SEVERITY_LEVELS)
    ELSE IF ~In(decision_action, DECISION_ACTIONS)
    THEN "Invalid decision_action: " \o decision_action
         \o ". Must be one of " \o Repr(DECISION_ACTIONS)
    ELSE ""

\* Validate enumerations: the message returned, or "" when all three are valid
Invalid(severity, status, decision_action) ==
    IF ~In(severity, SEVERITY_LEVELS)
    THEN "Invalid severity: " \o severity \o ". Must be one of " \o Repr(SEVERITY_LEVELS)
    ELSE IF ~In(status, STATUS_VALUES)
    THEN "Invalid status: " \o status \o ". Must be one of " \o Repr(STATUS_VALUES)
    ELSE IF ~In(decision_action, DECISION_ACTIONS)
    THEN "Invalid decision_action: " \o decision_action
         \o ". Must be one of " \o Repr(DECISION_ACTIONS)
    ELSE ""

\* Create alert document; python-dotenv has no attribute datetime, so
\* created_at is the fixed date
AlertDocument(transaction_id, customer_id, risk_score, severity, status, decision_action, reason) ==
    [id |-> "ALERT-" \o transaction_id,
     transaction_id |-> transaction_id,
     customer_id |-> customer_id,
     risk_score |-> risk_score,
     severity |-> severity,
     status |-> status,
     decision_action |-> decision_action,
     reason |-> reason,
     created_at |-> "2024-01-01T00:00:00"]

\* the emoji U+2705 that starts the message of create_fraud_alert
CheckMark == "(U+2705)"

\* result of create_fraud_alert
FraudAlertCreated(alert) ==
    CheckMark \o " Fraud Alert Created:\n"
    \o "Alert ID: " \o alert.id \o "\n"
    \o "Transaction: " \o alert.transaction_id \o "\n"
    \o "Customer: " \o alert.customer_id \o "\n"
    \o "Risk Score: " \o ToString(alert.risk_score) \o "/100\n"
    \o "Severity: " \o alert.severity \o "\n"
    \o "Status: " \o alert.status \o "\n"
    \o "Decision: " \o alert.decision_action \o "\n"
    \o "Reason: " \o alert.reason \o "\n"

\* result of get_fraud_alert for a document found
FraudAlertDetails(alert) ==
    "Fraud Alert Details:\n"
    \o "Alert ID: " \o alert.id \o "\n"
    \o "Transaction: " \o alert.transaction_id \o "\n"
    \o "Customer: " \o alert.customer_id \o "\n"
    \o "Risk Score: " \o ToString(alert.risk_score) \o "/100\n"
    \o "Severity: " \o alert.severity \o "\n"
    \o "Status: " \o alert.status \o "\n"
    \o "Decision: " \o alert.decision_action \o "\n"
    \o "Reason: " \o alert.reason \o "\n"
    \o "Created: " \o alert.created_at \o "\n"

\* alerts_container.upsert_item(alert): the document replaces the one of its id
upsert_item(container, alert) ==
    {d \in container : d.id # alert.id} \cup {alert}

\* alerts_container.query_items("SELECT * FROM c WHERE c.id = '{alert_id}'")
query_items(container, alert_id) == {d \in container : d.id = alert_id}

\* the module imported with or without a Cosmos container
AlertsInit ==
    /\ alerts_container \in BOOLEAN
    /\ documents = {}
    /\ tool_calls = <<>>
    /\ FraudAtImport
    /\ ClientAtImport
    /\ ChatAtImport

\* create_fraud_alert: validation, the document, the upsert when a container
\* is configured (an exception of the upsert is logged and dropped), the
\* message
create_fraud_alert ==
    /\ Len(tool_calls) < MaxToolCalls
    /\ \E transaction_id \in TransactionIds, severity \in Severities,
          status \in Statuses, decision_action \in Decisions,
          upsert_raises \in BOOLEAN :
         LET alert == AlertDocument(transaction_id, "CUST1001", 85, severity,
                                    status, decision_action, "velocity")
             invalid == Invalid(severity, status, decision_action)
         IN  /\ upsert_raises => invalid = "" /\ alerts_container
             /\ documents' =
                   IF invalid = "" /\ alerts_container /\ ~upsert_raises
                   THEN upsert_item(documents, alert)
                   ELSE documents
             /\ tool_calls' = Append(tool_calls,
                   [tool |-> "create_fraud_alert", alert_id |-> alert.id,
                    alert |-> alert,
                    result |-> IF invalid # "" THEN invalid
                               ELSE FraudAlertCreated(alert)])
    /\ UNCHANGED alerts_container
    /\ UNCHANGED <<fraud, client, chat>>

\* get_fraud_alert
get_fraud_alert ==
    /\ Len(tool_calls) < MaxToolCalls
    /\ \E alert_id \in AlertIds, query_raises \in BOOLEAN :
         /\ query_raises => alerts_container
         /\ tool_calls' = Append(tool_calls,
               [tool |-> "get_fraud_alert", alert_id |-> alert_id,
                alert |-> [id |-> alert_id],
                result |->
                   IF ~alerts_container
                   THEN "Fraud alerts storage not configured."
                   ELSE IF query_raises
                   THEN "Error retrieving alert " \o alert_id \o ": " \o "unavailable"
                   ELSE IF query_items(documents, alert_id) # {}
                   THEN FraudAlertDetails(CHOOSE d \in query_items(documents, alert_id) : TRUE)
                   ELSE "No alert found with ID: " \o alert_id])
    /\ UNCHANGED <<alerts_container, documents>>
    /\ UNCHANGED <<fraud, client, chat>>

AlertsNext == create_fraud_alert \/ get_fraud_alert

SpecAlerts == AlertsInit /\ [][AlertsNext]_vars

\* the call just made
LastCall == tool_calls[Len(tool_calls)]

\* C15: a call of create_fraud_alert whose severity, status or
\* decision_action is not an allowed value returns the Invalid message of the
\* first of them, in that order, that is not allowed, and leaves the stored
\* alerts as they were.
C15_InvalidCreatesNothing ==
    [][(/\ Len(tool_calls') = Len(tool_calls) + 1
        /\ LastCall'.tool = "create_fraud_alert")
       => LET a == LastCall'.alert
              r == LastCall'.result
          IN  /\ a.severity \notin {"LOW", "MEDIUM", "HIGH", "CRITICAL"} =>
                    /\ documents' = documents
                    /\ r = "Invalid severity: " \o a.severity
                           \o ". Must be one of ['LOW', 'MEDIUM', 'HIGH', 'CRITICAL']"
              /\ (/\ a.severity \in {"LOW", "MEDIUM", "HIGH", "CRITICAL"}
                  /\ a.status \notin {"OPEN", "INVESTIGATING", "RESOLVED", "FALSE_POSITIVE"}) =>
                    /\ documents' = documents
                    /\ r = "Invalid status: " \o a.status
                           \o ". Must be one of ['OPEN', 'INVESTIGATING', 'RESOLVED', 'FALSE_POSITIVE']"
              /\ (/\ a.severity \in {"LOW", "MEDIUM", "HIGH", "CRITICAL"}
                  /\ a.status \in {"OPEN", "INVESTIGATING", "RESOLVED", "FALSE_POSITIVE"}
                  /\ a.decision_action \notin {"ALLOW", "BLOCK", "MONITOR", "INVESTIGATE"}) =>
                    /\ documents' = documents
                    /\ r = "Invalid decision_action: " \o a.decision_action
                           \o ". Must be one of ['ALLOW', 'BLOCK', 'MONITOR', 'INVESTIGATE']"
      ]_vars

\* an alert is stored, and a second call for the same transaction with a
\* status that is not allowed has returned the message and left it there
C15_Witness ==
    /\ Len(tool_calls) = 2
    /\ tool_calls[1].tool = "create_fraud_alert"
    /\ tool_calls[2].tool = "create_fraud_alert"
    /\ tool_calls[2].alert.transaction_id = tool_calls[1].alert.transaction_id
    /\ tool_calls[2].alert.severity = "HIGH"
    /\ tool_calls[2].alert.status = "CLOSED"
    /\ tool_calls[2].alert.decision_action = "DENY"
    /\ tool_calls[2].result =
          "Invalid status: CLOSED. Must be one of ['OPEN', 'INVESTIGATING', 'RESOLVED', 'FALSE_POSITIVE']"
    /\ documents = {tool_calls[1].alert}

\* C16: once create_fraud_alert has returned its Fraud Alert Created message
\* for a transaction, get_fraud_alert of ALERT-<transaction> returns the
\* details of that alert: its transaction, customer, risk score, severity,
\* status and decision, whether or not a Cosmos container is configured.
C16_CreateGetRoundTrip ==
    \A i, j \in 1..Len(tool_calls) :
        (/\ i < j
         /\ tool_calls[i].tool = "create_fraud_alert"
         /\ tool_calls[i].result = FraudAlertCreated(tool_calls[i].alert)
         /\ tool_calls[j].tool = "get_fraud_alert"
         /\ tool_calls[j].alert_id = "ALERT-" \o tool_calls[i].alert.transaction_id
         /\ \A k \in (i + 1)..(j - 1) :
               ~(/\ tool_calls[k].tool = "create_fraud_alert"
                 /\ tool_calls[k].alert_id = tool_calls[j].alert_id))
        => LET a == tool_calls[i].alert
           IN  tool_calls[j].result =
                  "Fraud Alert Details:\n"
                  \o "Alert ID: ALERT-" \o a.transaction_id \o "\n"
                  \o "Transaction: " \o a.transaction_id \o "\n"
                  \o "Customer: " \o a.customer_id \o "\n"
                  \o "Risk Score: " \o ToString(a.risk_score) \o "/100\n"
                  \o "Severity: " \o a.severity \o "\n"
                  \o "Status: " \o a.status \o "\n"
                  \o "Decision: " \o a.decision_action \o "\n"
                  \o "Reason: " \o a.reason \o "\n"
                  \o "Created: " \o a.created_at \o "\n"

====
